---- MODULE Spec2Model ----
(***************************************************************************)
(* A model of the Flask service of flask-docker-traefik: the User table    *)
(* behind the SQLAlchemy handle (app/main.py), the route GET / that lists   *)
(* it, and the two administrative commands create_db and seed_db           *)
(* (app/manage.py).                                                        *)
(*                                                                         *)
(* The store is the database that DATABASE_URL names                       *)
(* (services/web/project/config.py): it outlives the processes that use    *)
(* it, so a run may start on a store with no user table, with an empty     *)
(* table, or with rows written earlier.  A row of the table is the tuple   *)
(* <<id, email, active>> of its three columns.  The order in which a       *)
(* SELECT without ORDER BY returns rows is left to the storage layer, so   *)
(* the result of a query is modelled as a set.                             *)
(***************************************************************************)
EXTENDS Integers, Sequences, FiniteSets, TLC

\* Bounds of the model.
MaxInitRows == 2   \* rows a store may already hold when a run starts
MaxInitId   == 3   \* largest id among those rows
MaxSeq      == 6   \* largest value of the id generator
LogLen      == 3   \* operations remembered in log

Michael == "michael@mherman.org"
Test    == "test@example.com"
Other   == "other@example.com"
Emails  == {Michael, Test, Other}

VARIABLES
    schema,        \* TRUE iff the user table exists in the store
    rows,          \* the rows of the user table, each <<id, email, active>>
    seq,           \* the next id the storage layer hands out for the table
    log,           \* history: the names of the last LogLen operations
    resp,          \* the outcome of the last operation
    idUses,        \* history: id -> insertions committed with it since the table was created (capped at 2)
    idUsesEver     \* history: id -> insertions this run committed with it, over all tables (capped at 2)

vars == <<schema, rows, seq, log, resp, idUses, idUsesEver>>

Ids == 1..MaxSeq

----------------------------------------------------------------------------
\* The User model (app/main.py).

\* active = db.Column(db.Boolean(), default=True, nullable=False)
ColumnDefaultActive == TRUE

\* User.__init__ sets the email and nothing else: id and active are unset.
User(email) == [email |-> email]

\* id = db.Column(db.Integer, primary_key=True): the k-th insert of a flush
\* (k = 0, 1, ...) takes the k-th value of the generator.
AllocIdSame(s, k) == s
AllocIdFromOne(s, k) == k + 1
AllocId(s, k) == s + k

\* email = db.Column(db.String(120), unique=True, nullable=False)
UniqueViolationOff(tbl, email) == FALSE
UniqueViolation(tbl, email) == \E r \in tbl : r[2] = email

\* The INSERT of an unsaved record: the column default fills active.
InsertRow(tbl, id, u) == tbl \cup {<<id, u.email, ColumnDefaultActive>>}

\* jsonify of a dataclass instance: an object with the dataclass fields.
Jsonify(r) == [id |-> r[1], email |-> r[2], active |-> r[3]]

----------------------------------------------------------------------------
\* The session (flask_sqlalchemy).

\* The flush of the pending records, in the order they were added, from the
\* k-th generator value on; it stops at the first INSERT that fails.
RECURSIVE Flush(_, _, _, _)
Flush(tbl, s, k, pending) ==
    IF pending = <<>>
    THEN [ok |-> TRUE, rows |-> tbl]
    ELSE IF UniqueViolation(tbl, Head(pending).email)
         THEN [ok |-> FALSE, rows |-> tbl]
         ELSE Flush(InsertRow(tbl, AllocId(s, k), Head(pending)), s, k + 1, Tail(pending))

\* db.session.commit(): one transaction; a failed flush rolls it back.
SessionCommitPartial(tbl, s, pending) == Flush(tbl, s, 0, pending)
RECURSIVE FlushMerge(_, _, _, _)
FlushMerge(tbl, s, k, pending) ==
    IF pending = <<>>
    THEN [ok |-> TRUE, rows |-> tbl]
    ELSE LET e == Head(pending).email
             kept == {r \in tbl : r[2] # e}
         IN FlushMerge(InsertRow(kept, AllocId(s, k), Head(pending)), s, k + 1, Tail(pending))
SessionCommitMerge(tbl, s, pending) == FlushMerge(tbl, s, 0, pending)
SessionCommit(tbl, s, pending) ==
    LET f == Flush(tbl, s, 0, pending)
    IN IF f.ok THEN f ELSE [ok |-> FALSE, rows |-> tbl]

\* User.query.all(): fails when the table does not exist; a SELECT leaves
\* the store as it is.
QueryFirst(st) ==
    IF st.schema
    THEN [ok |-> TRUE,
          users |-> IF st.rows = {} THEN {}
                    ELSE {CHOOSE r \in st.rows : \A q \in st.rows : r[1] <= q[1]},
          store |-> st]
    ELSE [ok |-> FALSE, users |-> {}, store |-> st]
QueryCreating(st) ==
    [ok |-> TRUE, users |-> st.rows, store |-> [st EXCEPT !.schema = TRUE]]
QueryAll(st) ==
    IF st.schema
    THEN [ok |-> TRUE, users |-> st.rows, store |-> st]
    ELSE [ok |-> FALSE, users |-> {}, store |-> st]

\* db.drop_all() and db.create_all(): create_all leaves an existing table alone.
DropAllSkipped(st) == st
DropAll(st) == [schema |-> FALSE, rows |-> {}, seq |-> 1]
CreateAll(st) == IF st.schema THEN st ELSE [schema |-> TRUE, rows |-> {}, seq |-> 1]

----------------------------------------------------------------------------
\* Outcomes.  A command exits with status 0, or 1 with the storage error it
\* propagated; the route answers 200 with a body, or 500.

NoError == ""
CliOk == [status |-> 0, body |-> {}, error |-> NoError]
CliError(e) == [status |-> 1, body |-> {}, error |-> e]

ResponseNotFound(q) ==
    IF q.ok /\ q.users # {}
    THEN [status |-> 200, body |-> {Jsonify(u) : u \in q.users}, error |-> NoError]
    ELSE [status |-> 404, body |-> {}, error |-> NoError]
Response(q) ==
    IF q.ok
    THEN [status |-> 200, body |-> {Jsonify(u) : u \in q.users}, error |-> NoError]
    ELSE [status |-> 500, body |-> {}, error |-> "OperationalError"]

----------------------------------------------------------------------------
\* History bookkeeping.

Push(l, name) ==
    LET a == Append(l, name) IN IF Len(a) > LogLen THEN Tail(a) ELSE a

Cap2(n) == IF n > 2 THEN 2 ELSE n

RowIds(tbl) == {r[1] : r \in tbl}

Count(uses, newIds) ==
    [i \in Ids |-> IF i \in newIds THEN Cap2(uses[i] + 1) ELSE uses[i]]

NoUses == [i \in Ids |-> 0]

----------------------------------------------------------------------------
\* The stores a run may start on.

AllRows == (1..MaxInitId) \X Emails \X BOOLEAN

RECURSIVE Tables(_)
Tables(n) ==
    IF n = 0 THEN {{}}
    ELSE LET P == Tables(n - 1)
         IN P \cup {t \cup {r} : <<t, r>> \in
                      {<<t, r>> \in P \X AllRows :
                          \A q \in t : q[1] # r[1] /\ q[2] # r[2]}}

MaxRowId(tbl) == IF tbl = {} THEN 0 ELSE CHOOSE i \in RowIds(tbl) : \A j \in RowIds(tbl) : j <= i

Init ==
    /\ schema \in BOOLEAN
    /\ rows \in (IF schema THEN Tables(MaxInitRows) ELSE {{}})
    /\ seq \in (IF schema THEN (MaxRowId(rows) + 1)..MaxSeq ELSE {1})
    /\ log = <<>>
    /\ resp = CliOk
    /\ idUses = Count(NoUses, RowIds(rows))
    /\ idUsesEver = NoUses

----------------------------------------------------------------------------
\* The operations.

Store == [schema |-> schema, rows |-> rows, seq |-> seq]

\* manage.py create_db: drop_all, create_all, commit.
create_db ==
    LET st == CreateAll(DropAll(Store))
    IN /\ schema' = st.schema
       /\ rows' = st.rows
       /\ seq' = st.seq
       /\ log' = Push(log, "create_db")
       /\ resp' = CliOk
       /\ idUses' = Count(NoUses, RowIds(st.rows))
       /\ UNCHANGED idUsesEver

\* manage.py seed_db: two adds and one commit.
SeedUsersOne == <<User(Michael)>>
SeedUsers == <<User(Michael), User(Test)>>

seed_db ==
    /\ seq + Len(SeedUsers) <= MaxSeq
    /\ log' = Push(log, "seed_db")
    /\ UNCHANGED schema
    /\ IF ~schema
       THEN /\ resp' = CliError("OperationalError")
            /\ UNCHANGED <<rows, seq, idUses, idUsesEver>>
       ELSE LET c == SessionCommit(rows, seq, SeedUsers)
            IN /\ rows' = c.rows
               /\ idUses' = Count(idUses, RowIds(c.rows \ rows))
               /\ idUsesEver' = Count(idUsesEver, RowIds(c.rows \ rows))
               /\ IF c.ok
                  THEN /\ resp' = CliOk
                       /\ seq' = seq + Len(SeedUsers)
                  ELSE /\ resp' = CliError("IntegrityError")
                       \* a rolled-back transaction gives the generator's values
                       \* back (SQLite's rowid) or not (a PostgreSQL sequence)
                       /\ seq' \in seq..(seq + Len(SeedUsers))

\* main.py read_root: GET /.
read_root ==
    LET q == QueryAll(Store)
    IN /\ resp' = Response(q)
       /\ schema' = q.store.schema
       /\ rows' = q.store.rows
       /\ seq' = q.store.seq
       /\ log' = Push(log, "GET")
       /\ UNCHANGED <<idUses, idUsesEver>>

Next == create_db \/ seed_db \/ read_root

Spec == Init /\ [][Next]_vars

----------------------------------------------------------------------------
\* Properties.

Last(l) == IF l = <<>> THEN "" ELSE l[Len(l)]

\* The remembered history ends with the operations of s, in that order.
EndsWith(s) ==
    /\ Len(log) >= Len(s)
    /\ \A i \in 1..Len(s) : log[Len(log) - Len(s) + i] = s[i]

\* A step taken by the operation called name (every operation logs its name).
StepOf(name) == Last(log') = name

HasEmail(tbl, e) == \E r \in tbl : r[2] = e

\* C1: after create_db and then seed_db, GET / returns exactly two records,
\* michael@mherman.org and test@example.com, both active.
C1_CreateSeedGet ==
    EndsWith(<<"create_db", "seed_db", "GET">>) =>
        /\ resp.status = 200
        /\ Cardinality(resp.body) = 2
        /\ {o.email : o \in resp.body} = {Michael, Test}
        /\ \A o \in resp.body : o.active = TRUE

C1_Witness ==
    /\ EndsWith(<<"create_db", "seed_db", "GET">>)
    /\ resp.status = 200
    /\ Cardinality(resp.body) = 2

\* C2: whenever the store already holds a row with email michael@mherman.org,
\* seed_db ends in a uniqueness-violation error and never in success.
C2_SeedDuplicateFails ==
    [][(StepOf("seed_db") /\ HasEmail(rows, Michael)) =>
          (resp'.status = 1 /\ resp'.error = "IntegrityError")]_vars

C2_Witness ==
    /\ EndsWith(<<"seed_db", "seed_db">>)
    /\ resp.error = "IntegrityError"
    /\ HasEmail(rows, Michael)

\* C3: create_db always ends with the schema present, zero rows and a fresh
\* id generator, whatever the state before it, and a GET / right after it
\* returns [].
C3_CreateDbResets ==
    /\ Last(log) = "create_db" =>
          (schema /\ rows = {} /\ seq = 1 /\ resp = CliOk)
    /\ EndsWith(<<"create_db", "GET">>) =>
          (resp.status = 200 /\ resp.body = {})

C3_Witness ==
    /\ EndsWith(<<"create_db", "create_db", "GET">>)
    /\ resp.body = {}
    /\ \E i \in Ids : idUsesEver[i] > 0

\* C4: GET / returns exactly the persisted rows, each with the id, email and
\* active that are stored, and every row inserted from User(email) is stored
\* with active = TRUE.
C4_GetReturnsRows ==
    (Last(log) = "GET" /\ resp.status = 200) =>
        /\ \A r \in rows : [id |-> r[1], email |-> r[2], active |-> r[3]] \in resp.body
        /\ \A o \in resp.body : <<o.id, o.email, o.active>> \in rows

C4_InsertedActive ==
    StepOf("seed_db") => \A r \in rows' \ rows : r[3] = TRUE

C4_GetExactlyInserted == []C4_GetReturnsRows /\ [][C4_InsertedActive]_vars

C4_Witness ==
    /\ EndsWith(<<"seed_db", "GET">>)
    /\ resp.status = 200
    /\ Cardinality(resp.body) = 3
    /\ \E o \in resp.body : o.active = FALSE

\* C5 as stated: for every store with zero user rows, also one on which
\* create_db has never run, GET / returns 200 with [].
C5_Original ==
    (Last(log) = "GET" /\ rows = {}) => (resp.status = 200 /\ resp.body = {})

\* C5 as amended: when the user table exists and has zero rows, GET / returns
\* 200 with []; when the table does not exist, GET / fails with status 500.
C5_EmptyTable ==
    Last(log) = "GET" =>
        /\ (schema /\ rows = {}) => (resp.status = 200 /\ resp.body = {})
        /\ ~schema => resp.status = 500

C5_Witness ==
    /\ Last(log) = "GET"
    /\ schema
    /\ rows = {}
    /\ resp.status = 200

\* C6: no two persisted rows have the same email and no two the same id.
C6_UniqueEmailAndId ==
    \A r1, r2 \in rows : (r1[1] = r2[1] \/ r1[2] = r2[2]) => r1 = r2

C6_Witness ==
    /\ Last(log) = "seed_db"
    /\ resp = CliOk
    /\ Cardinality(rows) = 3

\* C7 as stated: no id is ever assigned to two different insertions, also
\* across a create_db.
C7_Original == \A i \in Ids : idUsesEver[i] <= 1

\* C7 as amended: no id is assigned to two insertions into the same table;
\* create_db drops the table with its id generator, and the seed_db after it
\* assigns the ids 1 and 2 again.
C7_NoReuseWithinTable ==
    /\ \A i \in Ids : idUses[i] <= 1
    /\ (EndsWith(<<"create_db", "seed_db">>) /\ resp = CliOk) => RowIds(rows) = {1, 2}

C7_Witness ==
    /\ EndsWith(<<"create_db", "seed_db">>)
    /\ resp = CliOk
    /\ idUsesEver[1] = 2
    /\ idUses[1] = 1

\* C8 as stated: once a row is persisted, it stays in the store unchanged
\* after every later operation.
C8_Original == [][rows \subseteq rows']_vars

\* C8 as amended: seed_db and GET / never update or delete a persisted row;
\* create_db deletes every persisted row.
C8_OnlyCreateDbDeletes ==
    [][/\ (StepOf("seed_db") \/ StepOf("GET")) => rows \subseteq rows'
       /\ StepOf("create_db") => rows' = {}]_vars

C8_Witness ==
    /\ Last(log) = "seed_db"
    /\ resp = CliOk
    /\ \E r \in rows : r[2] = Other /\ r[3] = FALSE

\* C9: seed_db is all-or-nothing: a failed seed_db leaves the persisted rows
\* as they were, and a seed_db never adds exactly one of the two seed rows.
C9_SeedAllOrNothing ==
    [][StepOf("seed_db") =>
          /\ resp'.status # 0 => rows' = rows
          /\ \/ rows' = rows
             \/ /\ rows \subseteq rows'
                /\ {r[2] : r \in rows' \ rows} = {Michael, Test}
                /\ Cardinality(rows' \ rows) = 2]_vars

C9_Witness ==
    /\ Last(log) = "seed_db"
    /\ resp.error = "IntegrityError"
    /\ HasEmail(rows, Test)
    /\ ~HasEmail(rows, Michael)

\* C10: GET / is a pure read: it leaves the schema, every persisted row and
\* the id generator unchanged.
C10_GetIsPureRead ==
    [][StepOf("GET") => UNCHANGED <<schema, rows, seq>>]_vars

C10_Witness ==
    /\ EndsWith(<<"GET", "seed_db", "GET">>)
    /\ resp.status = 200
    /\ rows # {}

====
